---- MODULE Spec2Model ----
(***************************************************************************)
(* A model of pkg/flight/client.go: the Arrow Flight client FlightClient   *)
(* (NewFlightClient, Close, PutBatch, GetBatch, ListBatches), together     *)
(* with the environment it talks to: the gRPC transport, the per-call      *)
(* contexts, the Flight record writer / record reader and the Flight       *)
(* service.                                                                *)
(*                                                                         *)
(* Each call of PutBatch / GetBatch / ListBatches runs in its own slot     *)
(* (a goroutine of the caller); one step of the model is one transport or  *)
(* library operation of the call.  The library operations are modelled by  *)
(* what the Arrow Go v18 libraries do:                                     *)
(*  - flight.NewRecordWriter wraps a DataStreamWriter, an interface with   *)
(*    the single method Send.  Writer.Write sends the schema payload on    *)
(*    its first use, then the dictionary payloads and the record payload.  *)
(*    Writer.Close sends nothing once the writer has started, and has no   *)
(*    way to half-close the gRPC stream (that is stream.CloseSend).        *)
(*  - flight.NewRecordReader receives the first message of the stream and  *)
(*    reads the schema from it.  Reader.Next decodes the next record, with *)
(*    reference count 1, owned by the reader.  Reader.Release drops the    *)
(*    reader's count and, at zero, releases the current record.            *)
(*  - context.WithTimeout derives a context of the call's own; a stream    *)
(*    opened under it is torn down when it expires or is cancelled.        *)
(***************************************************************************)
EXTENDS Integers, Sequences, FiniteSets, TLC

VARIABLES
    fc,          \* construction state of the FlightClient
    connCh,      \* the channel grpc.Dial opened (FlightClient.conn)
    clientCh,    \* the channel of the flight.Client (FlightClient.client)
    config,      \* the Allocator field of the FlightClientConfig given
    allocator,   \* the allocator of the FlightClient (FlightClient.allocator)
    closeRet,    \* what the last call of Close returned
    pc,          \* per call: the position in its function
    kind,        \* per call: "put", "get", "list" or "none"
    ctx,         \* per call: the context derived by context.WithTimeout
    cancels,     \* per call: how often the deferred cancel() ran
    trace,       \* per call: the operations performed so far, with outcome
    lastErr,     \* per call: the cause of the last failed operation
    result,      \* per call: what the function returned
    batch,       \* per put call: the caller's batch (value, refs, freed)
    entry,       \* per put call: the caller's batch as it was at the call
    ticket,      \* per get call: the batchID argument
    outq,        \* per put call: payloads Writer.Write still has to send
    sent,        \* per call: the frames sent on the call's stream
    sendClosed,  \* per call: whether the send side was half-closed
    resp,        \* per call: the frames the service queued for the client
    served,      \* per call: whether the service has answered the stream
    known,       \* per get call: whether the service held the ticket's id
    rdr,         \* per get call: the record reader
    rec,         \* per get call: the record the reader decoded
    released,    \* per get call: whether the caller released the result
    batchIDs,    \* per list call: the identifiers collected so far
    prior,       \* per call: the calls that had returned when it started
    rcvd,        \* per call: the frames its stream has delivered to it
    closedAtStart, \* per call: whether Close had returned when it started
    store        \* the service: the batches it holds, by identifier number

vars == <<fc, connCh, clientCh, config, allocator, closeRet, pc, kind, ctx,
          cancels, trace, lastErr, result, batch, entry, ticket, outq, sent,
          sendClosed, resp, served, known, rdr, rec, released, batchIDs,
          prior, rcvd, closedAtStart, store>>

connVars == <<fc, connCh, clientCh, config, allocator, closeRet>>
putVars  == <<batch, entry, outq>>
\* the state of the downloading calls, GetBatch and ListBatches
getVars  == <<ticket, rdr, rec, released, batchIDs>>
svcVars  == <<resp, served, known, store>>
histVars == <<prior, rcvd, closedAtStart>>

(***************************************************************************)
(* Bounds.                                                                 *)
(***************************************************************************)
\* the calls made when any of the three functions may be called
NCalls == 2

\* the calls made when only PutBatch and ListBatches are called
NUploads == 3

\* the call slots
Calls == 1..NUploads

\* the slots of the calls made when any function may be called
MixedCalls == 1..NCalls

(***************************************************************************)
(* Columnar batches.  A batch is a schema (the field types), a row count   *)
(* and one column of values per field.  A field of type "dict" is sent     *)
(* dictionary-encoded.                                                     *)
(***************************************************************************)
BatchA == [schema |-> <<"int">>, rows |-> 1, cols |-> << <<7>> >>]

BatchB == [schema |-> <<"int", "dict">>, rows |-> 2,
           cols |-> << <<3, 4>>, <<20, 20>> >>]

BatchValues == {BatchA, BatchB}

NoBatch == [schema |-> <<>>, rows |-> 0, cols |-> <<>>]

(***************************************************************************)
(* Byte strings.  string(b) and []byte(s) copy the bytes one by one.       *)
(***************************************************************************)
BytesToString(b) == [i \in 1..Len(b) |-> b[i]]

StringToBytes(s) == [i \in 1..Len(s) |-> s[i]]

\* "put" as bytes
PutCmd == <<112, 117, 116>>

\* the identifier the service assigns to the n-th batch it stores
IdOf(n) == <<n>>

\* an identifier no service assigns
UnknownId == <<0>>

Tickets == {BytesToString(IdOf(1)), BytesToString(UnknownId)}

(***************************************************************************)
(* Frames: FlightData (descriptor, schema, dictionary and record           *)
(* messages), PutResult ("ack"), FlightInfo ("info"), and the two ways a   *)
(* stream ends for its reader: "eof" and "err" (a status from the server). *)
(***************************************************************************)
Frame(k, dt, cmd, meta, fields, did, rows, body) ==
    [kind |-> k, dtype |-> dt, cmd |-> cmd, appMeta |-> meta,
     fields |-> fields, dictId |-> did, rows |-> rows, body |-> body]

\* client.go: &flight.FlightData{FlightDescriptor: descriptor}
DescriptorFrame ==
    Frame("descriptor", "CMD", PutCmd, <<>>, <<>>, 0, 0, <<>>)

EofFrame == Frame("eof", "", <<>>, <<>>, <<>>, 0, 0, <<>>)

ErrFrame == Frame("err", "", <<>>, <<>>, <<>>, 0, 0, <<>>)

AckFrame(id) == Frame("ack", "", <<>>, id, <<>>, 0, 0, <<>>)

InfoFrame(id) == Frame("info", "CMD", id, <<>>, <<>>, 0, 0, <<>>)
\* a FlightInfo whose FlightDescriptor field is not set (a nil pointer)
BareInfoFrame == Frame("info", "nil", <<>>, <<>>, <<>>, 0, 0, <<>>)

TicketFrame(t) == Frame("ticket", "", t, <<>>, <<>>, 0, 0, <<>>)

CriteriaFrame == Frame("criteria", "", <<>>, <<>>, <<>>, 0, 0, <<>>)

(***************************************************************************)
(* The IPC encoding done by the record writer (ipc.Writer.start and        *)
(* ipc.Writer.Write behind flight.NewRecordWriter).                        *)
(***************************************************************************)
RECURSIVE Distinct(_)
\* the dictionary of a column: its values, each once, by first appearance
Distinct(s) ==
    IF s = <<>> THEN <<>>
    ELSE LET r == Distinct(SubSeq(s, 1, Len(s) - 1))
             v == s[Len(s)]
         IN  IF \E i \in 1..Len(r) : r[i] = v THEN r ELSE Append(r, v)

\* the zero-based position of v in dictionary d
IndexIn(d, v) == (CHOOSE i \in 1..Len(d) : d[i] = v) - 1

SchemaPayload(schema) == Frame("schema", "", <<>>, <<>>, schema, 0, 0, <<>>)

DictPayload(b, i) ==
    Frame("dict", "", <<>>, <<>>, <<>>, i, Len(Distinct(b.cols[i])),
          << Distinct(b.cols[i]) >>)

RECURSIVE DictPayloads(_, _)
\* one dictionary payload per dictionary-encoded column, from column i on
DictPayloads(b, i) ==
    IF i > Len(b.schema) THEN <<>>
    ELSE IF b.schema[i] = "dict"
         THEN <<DictPayload(b, i)>> \o DictPayloads(b, i + 1)
         ELSE DictPayloads(b, i + 1)

RecordPayload(b) ==
    Frame("record", "", <<>>, <<>>, <<>>, 0, b.rows,
          [i \in 1..Len(b.cols) |->
              IF b.schema[i] = "dict"
              THEN [j \in 1..Len(b.cols[i]) |->
                       IndexIn(Distinct(b.cols[i]), b.cols[i][j])]
              ELSE b.cols[i]])

\* a writer that sends the record before the schema and the dictionaries
WriterPayloads_RecordFirst(schema, b) ==
    <<RecordPayload(b)>> \o <<SchemaPayload(schema)>> \o DictPayloads(b, 1)

\* what Writer.Write(b) sends on a writer that has not started: the schema
\* the writer was created with, the dictionaries, the record
WriterPayloads(schema, b) ==
    <<SchemaPayload(schema)>> \o DictPayloads(b, 1) \o <<RecordPayload(b)>>

(***************************************************************************)
(* The IPC decoding done by the record reader (ipc.Reader behind           *)
(* flight.NewRecordReader).                                                *)
(***************************************************************************)
EmptyMemo(schema) == [i \in 1..Len(schema) |-> <<>>]

ValidRecord(schema, memo, f) ==
    /\ Len(f.body) = Len(schema)
    /\ \A i \in 1..Len(schema) :
          /\ Len(f.body[i]) = f.rows
          /\ schema[i] = "dict" =>
                \A j \in 1..f.rows : f.body[i][j] + 1 \in 1..Len(memo[i])

\* a decoder that takes the indices of a dictionary column for its values
DecodeRecord_Indices(schema, memo, f) ==
    [schema |-> schema, rows |-> f.rows,
     cols |-> [i \in 1..Len(schema) |-> f.body[i]]]

DecodeRecord(schema, memo, f) ==
    [schema |-> schema, rows |-> f.rows,
     cols |-> [i \in 1..Len(schema) |->
                  IF schema[i] = "dict"
                  THEN [j \in 1..Len(f.body[i]) |-> memo[i][f.body[i][j] + 1]]
                  ELSE f.body[i]]]

RECURSIVE ReadNext(_, _, _)
\* Reader.Next on the frames still to be received: dictionaries are taken
\* into the memo, the first record is decoded.  status is "rec" (a record),
\* "eof" (a clean end), "err" (a server status), "invalid" (a message that
\* cannot be decoded) or "wait" (nothing received yet).
ReadNext(schema, memo, frames) ==
    IF frames = <<>>
    THEN [status |-> "wait", val |-> NoBatch, memo |-> memo, rest |-> frames]
    ELSE LET f == Head(frames) IN
         CASE f.kind = "dict" ->
                IF f.dictId \in 1..Len(schema) /\ Len(f.body) = 1
                THEN ReadNext(schema, [memo EXCEPT ![f.dictId] = f.body[1]],
                              Tail(frames))
                ELSE [status |-> "invalid", val |-> NoBatch, memo |-> memo,
                      rest |-> Tail(frames)]
           [] f.kind = "record" ->
                IF ValidRecord(schema, memo, f)
                THEN [status |-> "rec", val |-> DecodeRecord(schema, memo, f),
                      memo |-> memo, rest |-> Tail(frames)]
                ELSE [status |-> "invalid", val |-> NoBatch, memo |-> memo,
                      rest |-> Tail(frames)]
           [] f.kind = "eof" ->
                [status |-> "eof", val |-> NoBatch, memo |-> memo,
                 rest |-> frames]
           [] f.kind = "err" ->
                [status |-> "err", val |-> NoBatch, memo |-> memo,
                 rest |-> frames]
           [] OTHER ->
                [status |-> "invalid", val |-> NoBatch, memo |-> memo,
                 rest |-> Tail(frames)]

(***************************************************************************)
(* Errors and results.                                                     *)
(***************************************************************************)
NoErr == [tag |-> "", cause |-> ""]

\* fmt.Errorf("<tag>: %w", cause)
Wrap(tag, cause) == [tag |-> tag, cause |-> cause]

NoResult == [ok |-> FALSE, id |-> <<>>, hasBatch |-> FALSE, ids |-> <<>>,
             err |-> NoErr]

Failure(e) == [NoResult EXCEPT !.err = e]

NoRec == [exists |-> FALSE, val |-> NoBatch, refs |-> 0, freed |-> FALSE]

NoRdr ==
    [made |-> FALSE, refs |-> 0, schema |-> <<>>, memo |-> <<>>, mem |-> ""]

\* the allocators: memory.NewGoAllocator() gives the Go allocator, whose
\* instances are interchangeable; a configured allocator is one of the
\* caller's own
GoAllocator == "go"
CustomAllocator == "custom"
\* config.Allocator: nil, or the caller's allocator
ConfigAllocators == {"nil", CustomAllocator}

\* the allocator of a reader made by flight.NewRecordReader(stream) with no
\* ipc.WithAllocator option: the ipc default, memory.NewGoAllocator()
ReaderAllocator == GoAllocator

\* arrow.Record.Release: the count drops, and at zero the buffers are freed
ReleaseObj(o) == [o EXCEPT !.refs = @ - 1, !.freed = (o.refs - 1 = 0)]

\* arrow.Record.Retain
RetainObj(o) == [o EXCEPT !.refs = @ + 1]

(***************************************************************************)
(* Contexts and streams.                                                   *)
(***************************************************************************)
\* a deadline set on a context shared by the calls: the expiry of one
\* call's deadline is seen by all
CallCtx_Shared(c) ==
    IF \E d \in Calls : ctx[d] = "deadline" THEN "deadline" ELSE ctx[c]

\* the state of the context of call c: context.WithTimeout(ctx, 30s) derives
\* a context for this call alone
CallCtx(c) == ctx[c]

\* a stream that works on whatever the state of the channel is
Healthy_ChannelIgnored(c) == CallCtx(c) = "live"

\* an operation on the stream of call c can succeed
Healthy(c) == CallCtx(c) = "live" /\ clientCh = "open"

\* the error of an operation on the stream of call c that fails for a
\* reason other than what the peer sent
FailCause(c) ==
    IF CallCtx(c) = "deadline" THEN "deadline"
    ELSE IF CallCtx(c) = "canceled" THEN "canceled"
    ELSE IF clientCh # "open" THEN "closing"
    ELSE "transport"

Running(c) == pc[c] \notin {"idle", "done"}

\* the stream of call c still delivers what the service sends: the call's
\* context is live and the channel open
StreamAlive(c) == Running(c) /\ Healthy(c)

\* call slots are taken in order: slot c is free and every lower one taken
NextSlot(c) == pc[c] = "idle" /\ \A d \in Calls : d < c => pc[d] # "idle"

TypeOK ==
    /\ fc \in {"none", "dialed", "built", "failed", "closed"}
    /\ connCh \in {"unopened", "open", "closed"}
    /\ clientCh \in {"unopened", "open", "closed"}
    /\ config \in ConfigAllocators
    /\ allocator \in {"", GoAllocator, CustomAllocator}
    /\ closeRet \in {"", "nil", "err"}
    /\ \A c \in Calls :
          /\ kind[c] \in {"none", "put", "get", "list"}
          /\ ctx[c] \in {"none", "live", "deadline", "canceled"}
          /\ cancels[c] \in Nat
          /\ sendClosed[c] \in BOOLEAN
          /\ served[c] \in BOOLEAN

\* the state before NewFlightClient(config), but for the config
InitCalls ==
    /\ fc = "none"
    /\ connCh = "unopened"
    /\ clientCh = "unopened"
    /\ allocator = ""
    /\ closeRet = ""
    /\ closedAtStart = [c \in Calls |-> FALSE]
    /\ pc = [c \in Calls |-> "idle"]
    /\ kind = [c \in Calls |-> "none"]
    /\ ctx = [c \in Calls |-> "none"]
    /\ cancels = [c \in Calls |-> 0]
    /\ trace = [c \in Calls |-> <<>>]
    /\ lastErr = [c \in Calls |-> ""]
    /\ result = [c \in Calls |-> NoResult]
    /\ batch = [c \in Calls |-> NoRec]
    /\ entry = [c \in Calls |-> NoRec]
    /\ ticket = [c \in Calls |-> <<>>]
    /\ outq = [c \in Calls |-> <<>>]
    /\ sent = [c \in Calls |-> <<>>]
    /\ sendClosed = [c \in Calls |-> FALSE]
    /\ resp = [c \in Calls |-> <<>>]
    /\ served = [c \in Calls |-> FALSE]
    /\ known = [c \in Calls |-> FALSE]
    /\ rdr = [c \in Calls |-> NoRdr]
    /\ rec = [c \in Calls |-> NoRec]
    /\ released = [c \in Calls |-> FALSE]
    /\ batchIDs = [c \in Calls |-> <<>>]
    /\ prior = [c \in Calls |-> {}]
    /\ rcvd = [c \in Calls |-> <<>>]
    /\ store = <<>>

\* NewFlightClient is called with a config that names no allocator
Init ==
    /\ InitCalls
    /\ config = "nil"

\* NewFlightClient is called with any config
InitCalm ==
    /\ InitCalls
    /\ config \in ConfigAllocators

(***************************************************************************)
(* Steps shared by the three functions.                                    *)
(***************************************************************************)
\* call c moves to position p, having performed operation ev
Step(c, p, ev) ==
    /\ pc' = [pc EXCEPT ![c] = p]
    /\ trace' = [trace EXCEPT ![c] = Append(@, ev)]

\* call c returns the error tag: cause; its deferred calls run from p
ReturnErr(c, p, ev, tag, cause) ==
    /\ Step(c, p, ev)
    /\ lastErr' = [lastErr EXCEPT ![c] = cause]
    /\ result' = [result EXCEPT ![c] = Failure(Wrap(tag, cause))]

(***************************************************************************)
(* NewFlightClient and Close.                                              *)
(***************************************************************************)
\* grpc.Dial succeeds
Dial_Ok ==
    /\ fc = "none"
    /\ fc' = "dialed"
    /\ connCh' = "open"
    /\ UNCHANGED <<histVars, clientCh, config, allocator, closeRet, pc, kind,
                   ctx, cancels, trace, lastErr, result, putVars, getVars,
                   sent, sendClosed, svcVars>>

\* grpc.Dial fails: return nil, error
Dial_Err ==
    /\ fc = "none"
    /\ fc' = "failed"
    /\ UNCHANGED <<histVars, connCh, clientCh, config, allocator, closeRet, pc,
                   kind, ctx, cancels, trace, lastErr, result, putVars,
                   getVars, sent, sendClosed, svcVars>>

\* flight.NewClientWithMiddleware succeeds: it dials a channel of its own
NewClient_Ok ==
    /\ fc = "dialed"
    /\ fc' = "built"
    /\ clientCh' = "open"
    /\ allocator' = (IF config = "nil" THEN GoAllocator ELSE config)
    /\ UNCHANGED <<histVars, connCh, config, closeRet, pc, kind, ctx, cancels,
                   trace, lastErr, result, putVars, getVars, sent, sendClosed,
                   svcVars>>

\* an error return that leaves the dialed channel open
NewClient_Err_Leak ==
    /\ fc = "dialed"
    /\ fc' = "failed"
    /\ UNCHANGED <<histVars, connCh, clientCh, config, allocator, closeRet, pc,
                   kind, ctx, cancels, trace, lastErr, result, putVars,
                   getVars, sent, sendClosed, svcVars>>

\* flight.NewClientWithMiddleware fails: conn.Close(), return nil, error
NewClient_Err ==
    /\ fc = "dialed"
    /\ fc' = "failed"
    /\ connCh' = "closed"
    /\ UNCHANGED <<histVars, clientCh, config, allocator, closeRet, pc, kind,
                   ctx, cancels, trace, lastErr, result, putVars, getVars,
                   sent, sendClosed, svcVars>>

\* Close: c.client.Close(), then c.conn.Close()
Close ==
    /\ fc = "built"
    /\ fc' = "closed"
    /\ clientCh' = "closed"
    /\ connCh' = "closed"
    /\ closeRet' = "nil"
    /\ UNCHANGED <<histVars, config, allocator, pc, kind, ctx, cancels, trace,
                   lastErr, result, putVars, getVars, sent, sendClosed,
                   svcVars>>

\* Close on a FlightClient already closed: c.client.Close() fails, its
\* error is dropped, and c.conn.Close() runs and fails as well: the
\* channels are closed already
Close_Again ==
    /\ fc = "closed"
    /\ closeRet' = "err"
    /\ clientCh' = "closed"
    /\ connCh' = "closed"
    /\ UNCHANGED <<histVars, fc, config, allocator, pc, kind, ctx, cancels,
                   trace, lastErr, result, putVars, getVars, sent, sendClosed,
                   svcVars>>

(***************************************************************************)
(* The callers and the clock.                                              *)
(***************************************************************************)
\* a caller calls PutBatch(ctx, b): ctx, cancel := context.WithTimeout(...)
StartPut(c, b) ==
    /\ fc \in {"built", "closed"}
    /\ NextSlot(c)
    /\ pc' = [pc EXCEPT ![c] = "put_open"]
    /\ kind' = [kind EXCEPT ![c] = "put"]
    /\ ctx' = [ctx EXCEPT ![c] = "live"]
    /\ prior' = [prior EXCEPT ![c] = {d \in Calls : pc[d] = "done"}]
    /\ closedAtStart' = [closedAtStart EXCEPT ![c] = (fc = "closed")]
    /\ batch' = [batch EXCEPT ![c] =
                    [exists |-> TRUE, val |-> b, refs |-> 1, freed |-> FALSE]]
    /\ entry' = [entry EXCEPT ![c] =
                    [exists |-> TRUE, val |-> b, refs |-> 1, freed |-> FALSE]]
    /\ UNCHANGED <<rcvd, connVars, cancels, trace, lastErr, result, outq,
                   getVars, sent, sendClosed, svcVars>>

\* a caller calls GetBatch(ctx, t)
StartGet(c, t) ==
    /\ fc \in {"built", "closed"}
    /\ NextSlot(c)
    /\ pc' = [pc EXCEPT ![c] = "get_open"]
    /\ kind' = [kind EXCEPT ![c] = "get"]
    /\ ctx' = [ctx EXCEPT ![c] = "live"]
    /\ prior' = [prior EXCEPT ![c] = {d \in Calls : pc[d] = "done"}]
    /\ closedAtStart' = [closedAtStart EXCEPT ![c] = (fc = "closed")]
    /\ ticket' = [ticket EXCEPT ![c] = t]
    /\ UNCHANGED <<rcvd, connVars, cancels, trace, lastErr, result, putVars,
                   rdr, rec, released, batchIDs, sent, sendClosed, svcVars>>

\* a caller calls ListBatches(ctx)
StartList(c) ==
    /\ fc \in {"built", "closed"}
    /\ NextSlot(c)
    /\ pc' = [pc EXCEPT ![c] = "list_open"]
    /\ kind' = [kind EXCEPT ![c] = "list"]
    /\ ctx' = [ctx EXCEPT ![c] = "live"]
    /\ prior' = [prior EXCEPT ![c] = {d \in Calls : pc[d] = "done"}]
    /\ closedAtStart' = [closedAtStart EXCEPT ![c] = (fc = "closed")]
    /\ UNCHANGED <<rcvd, connVars, cancels, trace, lastErr, result, putVars,
                   getVars, sent, sendClosed, svcVars>>

\* the deadline of call c (30s, or the caller's earlier one) passes
DeadlineExpire(c) ==
    /\ Running(c)
    /\ ctx[c] = "live"
    /\ ctx' = [ctx EXCEPT ![c] = "deadline"]
    /\ UNCHANGED <<histVars, connVars, pc, kind, cancels, trace, lastErr,
                   result, putVars, getVars, sent, sendClosed, svcVars>>

\* the caller cancels the context it passed to call c
CallerCancel(c) ==
    /\ Running(c)
    /\ ctx[c] = "live"
    /\ ctx' = [ctx EXCEPT ![c] = "canceled"]
    /\ UNCHANGED <<histVars, connVars, pc, kind, cancels, trace, lastErr,
                   result, putVars, getVars, sent, sendClosed, svcVars>>

\* a return that leaves the call's context as it is
DeferCancel_Skipped(c) ==
    /\ pc[c] = "defer_cancel"
    /\ Step(c, "done", "return")
    /\ UNCHANGED <<histVars, connVars, kind, ctx, cancels, lastErr, result,
                   putVars, getVars, sent, sendClosed, svcVars>>

\* defer cancel(): the call's context is cancelled and the call has returned
DeferCancel(c) ==
    /\ pc[c] = "defer_cancel"
    /\ Step(c, "done", "cancel")
    /\ cancels' = [cancels EXCEPT ![c] = @ + 1]
    /\ ctx' = [ctx EXCEPT ![c] = IF @ = "live" THEN "canceled" ELSE @]
    /\ UNCHANGED <<histVars, connVars, kind, lastErr, result, putVars, getVars,
                   sent, sendClosed, svcVars>>

(***************************************************************************)
(* PutBatch.                                                               *)
(***************************************************************************)
\* stream, err := c.client.DoPut(ctx), err == nil
PutOpen_Ok(c) ==
    /\ pc[c] = "put_open"
    /\ Healthy(c)
    /\ Step(c, "put_desc", "open_ok")
    /\ UNCHANGED <<histVars, connVars, kind, ctx, cancels, lastErr, result,
                   putVars, getVars, sent, sendClosed, svcVars>>

\* c.client.DoPut(ctx) fails
PutOpen_Err(c) ==
    /\ pc[c] = "put_open"
    /\ ReturnErr(c, "defer_cancel", "open_err",
                 "failed to start DoPut stream", FailCause(c))
    /\ UNCHANGED <<histVars, connVars, kind, ctx, cancels, putVars, getVars,
                   sent, sendClosed, svcVars>>

\* stream.Send(&flight.FlightData{FlightDescriptor: descriptor}) succeeds;
\* writer := flight.NewRecordWriter(stream, ipc.WithSchema(batch.Schema()))
PutDesc_Ok(c) ==
    /\ pc[c] = "put_desc"
    /\ Healthy(c)
    /\ Step(c, "put_write", "desc_ok")
    /\ sent' = [sent EXCEPT ![c] = Append(@, DescriptorFrame)]
    /\ outq' = [outq EXCEPT ![c] =
                   WriterPayloads(batch[c].val.schema, batch[c].val)]
    /\ UNCHANGED <<histVars, connVars, kind, ctx, cancels, lastErr, result,
                   batch, entry, getVars, sendClosed, svcVars>>

\* sending the descriptor fails
PutDesc_Err(c) ==
    /\ pc[c] = "put_desc"
    /\ ReturnErr(c, "defer_cancel", "desc_err",
                 "failed to send descriptor", FailCause(c))
    /\ UNCHANGED <<histVars, connVars, kind, ctx, cancels, putVars, getVars,
                   sent, sendClosed, svcVars>>

\* a writer over one stream kept on the FlightClient: every call sends on
\* the stream of the first call
PutWrite_Ok_SharedStream(c) ==
    /\ pc[c] = "put_write"
    /\ outq[c] # <<>>
    /\ Healthy(c)
    /\ Step(c, IF Tail(outq[c]) = <<>> THEN "put_close" ELSE "put_write",
            "send_ok")
    /\ sent' = [sent EXCEPT ![1] = Append(@, Head(outq[c]))]
    /\ outq' = [outq EXCEPT ![c] = Tail(@)]
    /\ UNCHANGED <<histVars, connVars, kind, ctx, cancels, lastErr, result,
                   batch, entry, getVars, sendClosed, svcVars>>

\* writer.Write(batch): the next payload is sent; Write returns nil after
\* the last one
PutWrite_Ok(c) ==
    /\ pc[c] = "put_write"
    /\ outq[c] # <<>>
    /\ Healthy(c)
    /\ Step(c, IF Tail(outq[c]) = <<>> THEN "put_close" ELSE "put_write",
            "send_ok")
    /\ sent' = [sent EXCEPT ![c] = Append(@, Head(outq[c]))]
    /\ outq' = [outq EXCEPT ![c] = Tail(@)]
    /\ UNCHANGED <<histVars, connVars, kind, ctx, cancels, lastErr, result,
                   batch, entry, getVars, sendClosed, svcVars>>

\* writer.Write(batch): sending a payload fails, Write returns the error
PutWrite_Err(c) ==
    /\ pc[c] = "put_write"
    /\ outq[c] # <<>>
    /\ Step(c, "put_abort", "send_err")
    /\ lastErr' = [lastErr EXCEPT ![c] = FailCause(c)]
    /\ UNCHANGED <<histVars, connVars, kind, ctx, cancels, result, putVars,
                   getVars, sent, sendClosed, svcVars>>

\* a write-failure path that also releases the caller's batch
PutAbort_Release(c) ==
    /\ pc[c] = "put_abort"
    /\ Step(c, "defer_cancel", "wclose_dropped")
    /\ result' = [result EXCEPT ![c] =
                     Failure(Wrap("failed to write batch to stream",
                                  lastErr[c]))]
    /\ batch' = [batch EXCEPT ![c] = ReleaseObj(@)]
    /\ UNCHANGED <<histVars, connVars, kind, ctx, cancels, lastErr, entry,
                   outq, getVars, sent, sendClosed, svcVars>>

\* after a failed Write: writer.Close(), its result dropped, then
\* return "", "failed to write batch to stream: ..."
PutAbort(c) ==
    /\ pc[c] = "put_abort"
    /\ Step(c, "defer_cancel", "wclose_dropped")
    /\ result' = [result EXCEPT ![c] =
                     Failure(Wrap("failed to write batch to stream",
                                  lastErr[c]))]
    /\ UNCHANGED <<histVars, connVars, kind, ctx, cancels, lastErr, putVars,
                   getVars, sent, sendClosed, svcVars>>

\* writer.Close() returns nil.  The writer has started, so Close sends
\* nothing; the writer holds a DataStreamWriter (Send only), so the send
\* side of the stream stays open.
PutCloseWriter_Ok(c) ==
    /\ pc[c] = "put_close"
    /\ Step(c, "put_recv", "wclose_ok")
    /\ UNCHANGED <<histVars, connVars, kind, ctx, cancels, lastErr, result,
                   putVars, getVars, sent, sendClosed, svcVars>>

\* writer.Close() returns an error.  (A started writer over a Flight stream
\* has nothing left to send at Close; the branch is kept as the code has
\* it, for a writer whose Close can fail.)
PutCloseWriter_Err(c) ==
    /\ pc[c] = "put_close"
    /\ ReturnErr(c, "defer_cancel", "wclose_err",
                 "failed to close writer", FailCause(c))
    /\ UNCHANGED <<histVars, connVars, kind, ctx, cancels, putVars, getVars,
                   sent, sendClosed, svcVars>>

\* a receive that takes the identifier from the frame's command field
PutRecv_Ok_Cmd(c) ==
    /\ pc[c] = "put_recv"
    /\ Healthy(c)
    /\ resp[c] # <<>>
    /\ Head(resp[c]).kind = "ack"
    /\ Step(c, "defer_cancel", "recv_ok")
    /\ result' = [result EXCEPT ![c] =
                     [NoResult EXCEPT !.ok = TRUE,
                         !.id = BytesToString(Head(resp[c]).cmd)]]
    /\ resp' = [resp EXCEPT ![c] = Tail(@)]
    /\ rcvd' = [rcvd EXCEPT ![c] = Append(@, Head(resp[c]))]
    /\ UNCHANGED <<prior, closedAtStart, connVars, kind, ctx, cancels, lastErr,
                   putVars, getVars, sent, sendClosed, served, known, store>>

\* result, err := stream.Recv() delivers the acknowledgement;
\* return string(result.AppMetadata), nil
PutRecv_Ok(c) ==
    /\ pc[c] = "put_recv"
    /\ Healthy(c)
    /\ resp[c] # <<>>
    /\ Head(resp[c]).kind = "ack"
    /\ Step(c, "defer_cancel", "recv_ok")
    /\ result' = [result EXCEPT ![c] =
                     [NoResult EXCEPT !.ok = TRUE,
                         !.id = BytesToString(Head(resp[c]).appMeta)]]
    /\ resp' = [resp EXCEPT ![c] = Tail(@)]
    /\ rcvd' = [rcvd EXCEPT ![c] = Append(@, Head(resp[c]))]
    /\ UNCHANGED <<prior, closedAtStart, connVars, kind, ctx, cancels, lastErr,
                   putVars, getVars, sent, sendClosed, served, known, store>>

\* a failed receive that is tried again instead of returned
PutRecv_Err_Retry(c) ==
    /\ pc[c] = "put_recv"
    /\ Len(trace[c]) < 8
    /\ Step(c, "put_recv", "recv_err")
    /\ lastErr' = [lastErr EXCEPT ![c] = FailCause(c)]
    /\ UNCHANGED <<histVars, connVars, kind, ctx, cancels, result, putVars,
                   getVars, sent, sendClosed, svcVars>>

\* stream.Recv() fails
PutRecv_Err(c) ==
    /\ pc[c] = "put_recv"
    /\ ReturnErr(c, "defer_cancel", "recv_err",
                 "failed to receive result", FailCause(c))
    /\ UNCHANGED <<histVars, connVars, kind, ctx, cancels, putVars, getVars,
                   sent, sendClosed, svcVars>>

(***************************************************************************)
(* GetBatch.                                                               *)
(***************************************************************************)
\* stream, err := c.client.DoGet(ctx, ticket), err == nil: the ticket is
\* sent and the send side closed
GetOpen_Ok(c) ==
    /\ pc[c] = "get_open"
    /\ Healthy(c)
    /\ Step(c, "get_reader", "open_ok")
    /\ sent' = [sent EXCEPT ![c] = <<TicketFrame(StringToBytes(ticket[c]))>>]
    /\ sendClosed' = [sendClosed EXCEPT ![c] = TRUE]
    /\ UNCHANGED <<histVars, connVars, kind, ctx, cancels, lastErr, result,
                   putVars, getVars, svcVars>>

\* c.client.DoGet fails
GetOpen_Err(c) ==
    /\ pc[c] = "get_open"
    /\ ReturnErr(c, "defer_cancel", "open_err",
                 "failed to start DoGet stream", FailCause(c))
    /\ UNCHANGED <<histVars, connVars, kind, ctx, cancels, putVars, getVars,
                   sent, sendClosed, svcVars>>

\* the errors a receive on the stream of call c can return now, given the
\* kinds of frame the receiver can use
RecvCauses(c, usable) ==
    IF ~Healthy(c) THEN {FailCause(c)}
    ELSE {"transport"} \cup
         (IF resp[c] = <<>> THEN {}
          ELSE IF Head(resp[c]).kind = "eof" THEN {"eof"}
          ELSE IF Head(resp[c]).kind = "err" THEN {"status"}
          ELSE IF Head(resp[c]).kind \notin usable THEN {"invalid"}
          ELSE {})

\* reader, err := flight.NewRecordReader(stream), err == nil: the first
\* message carries the schema; defer reader.Release()
GetReader_Ok(c) ==
    /\ pc[c] = "get_reader"
    /\ Healthy(c)
    /\ resp[c] # <<>>
    /\ Head(resp[c]).kind = "schema"
    /\ Step(c, "get_next", "reader_ok")
    /\ rdr' = [rdr EXCEPT ![c] =
                  [made |-> TRUE, refs |-> 1,
                   schema |-> Head(resp[c]).fields,
                   memo |-> EmptyMemo(Head(resp[c]).fields),
                   mem |-> ReaderAllocator]]
    /\ resp' = [resp EXCEPT ![c] = Tail(@)]
    /\ rcvd' = [rcvd EXCEPT ![c] = Append(@, Head(resp[c]))]
    /\ UNCHANGED <<prior, closedAtStart, connVars, kind, ctx, cancels, lastErr,
                   result, putVars, ticket, rec, released, batchIDs, sent,
                   sendClosed, served, known, store>>

\* flight.NewRecordReader fails: no reader, nothing to release
GetReader_Err(c) ==
    /\ pc[c] = "get_reader"
    /\ \E cause \in RecvCauses(c, {"schema"}) :
          ReturnErr(c, "defer_cancel", "reader_err",
                    "failed to create record reader", cause)
    /\ UNCHANGED <<histVars, connVars, kind, ctx, cancels, putVars, getVars,
                   sent, sendClosed, svcVars>>

\* reader.Next() returns true: a record was decoded, owned by the reader
GetNext_Ok(c) ==
    /\ pc[c] = "get_next"
    /\ Healthy(c)
    /\ LET r == ReadNext(rdr[c].schema, rdr[c].memo, resp[c]) IN
          /\ r.status = "rec"
          /\ rec' = [rec EXCEPT ![c] =
                        [exists |-> TRUE, val |-> r.val, refs |-> 1,
                         freed |-> FALSE]]
          /\ rdr' = [rdr EXCEPT ![c].memo = r.memo]
          /\ resp' = [resp EXCEPT ![c] = r.rest]
          /\ rcvd' = [rcvd EXCEPT ![c] =
                         @ \o SubSeq(resp[c], 1, Len(resp[c]) - Len(r.rest))]
    /\ Step(c, "get_retain", "next_ok")
    /\ UNCHANGED <<prior, closedAtStart, connVars, kind, ctx, cancels, lastErr,
                   result, putVars, ticket, released, batchIDs, sent,
                   sendClosed, served, known, store>>

\* a return on an empty stream that leaves the reader unreleased
GetNext_Eof_Unreleased(c) ==
    /\ pc[c] = "get_next"
    /\ Healthy(c)
    /\ ReadNext(rdr[c].schema, rdr[c].memo, resp[c]).status = "eof"
    /\ Step(c, "defer_cancel", "next_eof")
    /\ result' = [result EXCEPT ![c] = Failure(Wrap("no batch received", ""))]
    /\ UNCHANGED <<histVars, connVars, kind, ctx, cancels, lastErr, putVars,
                   getVars, sent, sendClosed, svcVars>>

\* reader.Next() returns false and reader.Err() is nil: the stream ended;
\* return nil, "no batch received"
GetNext_Eof(c) ==
    /\ pc[c] = "get_next"
    /\ Healthy(c)
    /\ ReadNext(rdr[c].schema, rdr[c].memo, resp[c]).status = "eof"
    /\ Step(c, "defer_release", "next_eof")
    /\ result' = [result EXCEPT ![c] = Failure(Wrap("no batch received", ""))]
    /\ UNCHANGED <<histVars, connVars, kind, ctx, cancels, lastErr, putVars,
                   getVars, sent, sendClosed, svcVars>>

\* a failed Next reported as an empty stream
GetNext_Err_AsEmpty(c) ==
    /\ pc[c] = "get_next"
    /\ Step(c, "defer_release", "next_err")
    /\ lastErr' = [lastErr EXCEPT ![c] = FailCause(c)]
    /\ result' = [result EXCEPT ![c] = Failure(Wrap("no batch received", ""))]
    /\ UNCHANGED <<histVars, connVars, kind, ctx, cancels, putVars, getVars,
                   sent, sendClosed, svcVars>>

\* reader.Next() returns false and reader.Err() is an error
GetNext_Err(c) ==
    /\ pc[c] = "get_next"
    /\ \E cause \in
          (IF ~Healthy(c) THEN {FailCause(c)}
           ELSE {"transport"} \cup
                LET st == ReadNext(rdr[c].schema, rdr[c].memo, resp[c]).status
                IN  IF st = "err" THEN {"status"}
                    ELSE IF st = "invalid" THEN {"invalid"} ELSE {}) :
          ReturnErr(c, "defer_release", "next_err",
                    "error reading batch", cause)
    /\ UNCHANGED <<histVars, connVars, kind, ctx, cancels, putVars, getVars,
                   sent, sendClosed, svcVars>>

\* a return of the reader's record without batch.Retain()
GetRetain_Forgotten(c) ==
    /\ pc[c] = "get_retain"
    /\ Step(c, "defer_release", "retain")
    /\ result' = [result EXCEPT ![c] =
                     [NoResult EXCEPT !.ok = TRUE, !.hasBatch = TRUE]]
    /\ UNCHANGED <<histVars, connVars, kind, ctx, cancels, lastErr, putVars,
                   getVars, sent, sendClosed, svcVars>>

\* batch := reader.Record(); batch.Retain(); return batch, nil
GetRetain(c) ==
    /\ pc[c] = "get_retain"
    /\ Step(c, "defer_release", "retain")
    /\ rec' = [rec EXCEPT ![c] = RetainObj(@)]
    /\ result' = [result EXCEPT ![c] =
                     [NoResult EXCEPT !.ok = TRUE, !.hasBatch = TRUE]]
    /\ UNCHANGED <<histVars, connVars, kind, ctx, cancels, lastErr, putVars,
                   ticket, rdr, released, batchIDs, sent, sendClosed, svcVars>>

\* defer reader.Release(): the reader's count drops to zero and the reader
\* releases its current record, if it has one
DeferRelease(c) ==
    /\ pc[c] = "defer_release"
    /\ Step(c, "defer_cancel", "release")
    /\ rdr' = [rdr EXCEPT ![c].refs = @ - 1]
    /\ rec' = [rec EXCEPT ![c] =
                  IF rdr[c].refs - 1 = 0 /\ @.exists THEN ReleaseObj(@) ELSE @]
    /\ UNCHANGED <<histVars, connVars, kind, ctx, cancels, lastErr, result,
                   putVars, ticket, released, batchIDs, sent, sendClosed,
                   svcVars>>

\* the caller of GetBatch is done with the batch it got: batch.Release()
CallerRelease(c) ==
    /\ pc[c] = "done"
    /\ result[c].hasBatch
    /\ ~released[c]
    /\ released' = [released EXCEPT ![c] = TRUE]
    /\ rec' = [rec EXCEPT ![c] = ReleaseObj(@)]
    /\ UNCHANGED <<histVars, connVars, pc, kind, ctx, cancels, trace, lastErr,
                   result, putVars, ticket, rdr, batchIDs, sent, sendClosed,
                   svcVars>>

(***************************************************************************)
(* ListBatches.                                                            *)
(***************************************************************************)
\* stream, err := c.client.ListFlights(ctx, criteria), err == nil
ListOpen_Ok(c) ==
    /\ pc[c] = "list_open"
    /\ Healthy(c)
    /\ Step(c, "list_recv", "open_ok")
    /\ sent' = [sent EXCEPT ![c] = <<CriteriaFrame>>]
    /\ sendClosed' = [sendClosed EXCEPT ![c] = TRUE]
    /\ UNCHANGED <<histVars, connVars, kind, ctx, cancels, lastErr, result,
                   putVars, getVars, svcVars>>

\* c.client.ListFlights fails
ListOpen_Err(c) ==
    /\ pc[c] = "list_open"
    /\ ReturnErr(c, "defer_cancel", "open_err",
                 "failed to start ListFlights stream", FailCause(c))
    /\ UNCHANGED <<histVars, connVars, kind, ctx, cancels, putVars, getVars,
                   sent, sendClosed, svcVars>>

\* a receive that keeps the identifier just received and drops the ones
\* collected before
ListRecv_Ok_KeepLast(c) ==
    /\ pc[c] = "list_recv"
    /\ Healthy(c)
    /\ resp[c] # <<>>
    /\ Head(resp[c]).kind = "info"
    /\ Head(resp[c]).dtype # "nil"
    /\ Step(c, "list_recv", "recv_ok")
    /\ batchIDs' = [batchIDs EXCEPT ![c] =
                       <<BytesToString(Head(resp[c]).cmd)>>]
    /\ resp' = [resp EXCEPT ![c] = Tail(@)]
    /\ rcvd' = [rcvd EXCEPT ![c] = Append(@, Head(resp[c]))]
    /\ UNCHANGED <<prior, closedAtStart, connVars, kind, ctx, cancels, lastErr,
                   result, putVars, ticket, rdr, rec, released, sent,
                   sendClosed, served, known, store>>

\* info, err := stream.Recv(), err == nil:
\* batchIDs = append(batchIDs, string(info.FlightDescriptor.Cmd))
ListRecv_Ok(c) ==
    /\ pc[c] = "list_recv"
    /\ Healthy(c)
    /\ resp[c] # <<>>
    /\ Head(resp[c]).kind = "info"
    /\ Head(resp[c]).dtype # "nil"
    /\ Step(c, "list_recv", "recv_ok")
    /\ batchIDs' = [batchIDs EXCEPT ![c] =
                       Append(@, BytesToString(Head(resp[c]).cmd))]
    /\ resp' = [resp EXCEPT ![c] = Tail(@)]
    /\ rcvd' = [rcvd EXCEPT ![c] = Append(@, Head(resp[c]))]
    /\ UNCHANGED <<prior, closedAtStart, connVars, kind, ctx, cancels, lastErr,
                   result, putVars, ticket, rdr, rec, released, sent,
                   sendClosed, served, known, store>>

\* info, err := stream.Recv(), err == nil, and info.FlightDescriptor is
\* nil: info.FlightDescriptor.Cmd dereferences a nil pointer and the call
\* panics; the deferred cancel() runs as the stack unwinds
ListRecv_Panic(c) ==
    /\ pc[c] = "list_recv"
    /\ Healthy(c)
    /\ resp[c] # <<>>
    /\ Head(resp[c]).kind = "info"
    /\ Head(resp[c]).dtype = "nil"
    /\ pc' = [pc EXCEPT ![c] = "panicked"]
    /\ trace' = [trace EXCEPT ![c] = @ \o <<"panic", "cancel">>]
    /\ cancels' = [cancels EXCEPT ![c] = @ + 1]
    /\ ctx' = [ctx EXCEPT ![c] = "canceled"]
    /\ resp' = [resp EXCEPT ![c] = Tail(@)]
    /\ rcvd' = [rcvd EXCEPT ![c] = Append(@, Head(resp[c]))]
    /\ UNCHANGED <<prior, closedAtStart, connVars, kind, lastErr, result,
                   putVars, getVars, sent, sendClosed, served, known, store>>

\* a receive loop that returns the error of a failed receive, unless it is
\* the end of the stream
ListRecv_End_Reported(c) ==
    /\ pc[c] = "list_recv"
    /\ \E cause \in RecvCauses(c, {"info"}) :
          /\ lastErr' = [lastErr EXCEPT ![c] = cause]
          /\ result' = [result EXCEPT ![c] =
                IF cause = "eof"
                THEN [NoResult EXCEPT !.ok = TRUE, !.ids = batchIDs[c]]
                ELSE Failure(Wrap("failed to receive flight info", cause))]
    /\ Step(c, "defer_cancel", "recv_err")
    /\ UNCHANGED <<histVars, connVars, kind, ctx, cancels, putVars, getVars,
                   sent, sendClosed, svcVars>>

\* stream.Recv() returns an error (the end of the stream or any other):
\* break; return batchIDs, nil
ListRecv_End(c) ==
    /\ pc[c] = "list_recv"
    /\ \E cause \in RecvCauses(c, {"info"}) :
          lastErr' = [lastErr EXCEPT ![c] = cause]
    /\ Step(c, "defer_cancel", "recv_err")
    /\ result' = [result EXCEPT ![c] =
                     [NoResult EXCEPT !.ok = TRUE, !.ids = batchIDs[c]]]
    /\ UNCHANGED <<histVars, connVars, kind, ctx, cancels, putVars, getVars,
                   sent, sendClosed, svcVars>>

(***************************************************************************)
(* The Flight service, as the wire protocol describes it: it stores the    *)
(* batch a put stream carries and acknowledges it with the identifier it   *)
(* assigned; it serves a stored batch for its identifier; it lists the     *)
(* identifiers it holds.                                                   *)
(***************************************************************************)
\* the batch carried by the frames of a put stream, if they are a
\* descriptor, a schema and a complete record
PutStreamBatch(frames) ==
    IF Len(frames) >= 2 /\ frames[1].kind = "descriptor"
       /\ frames[2].kind = "schema"
    THEN ReadNext(frames[2].fields, EmptyMemo(frames[2].fields),
                  SubSeq(frames, 3, Len(frames)))
    ELSE [status |-> "wait", val |-> NoBatch, memo |-> <<>>, rest |-> <<>>]

\* the service stores the batch of put stream c, once it has received it
\* whole, and acknowledges it with the identifier it assigns
SvcAck(c) ==
    /\ kind[c] = "put"
    /\ ~served[c]
    /\ PutStreamBatch(sent[c]).status = "rec"
    /\ store' = Append(store, PutStreamBatch(sent[c]).val)
    /\ resp' = [resp EXCEPT ![c] = <<AckFrame(IdOf(Len(store) + 1))>>]
    /\ served' = [served EXCEPT ![c] = TRUE]
    /\ UNCHANGED <<histVars, connVars, pc, kind, ctx, cancels, trace, lastErr,
                   result, putVars, getVars, sent, sendClosed, known>>

\* the identifier numbers the service holds for the ticket of get stream c
Held(c) == {n \in 1..Len(store) : IdOf(n) = sent[c][1].cmd}

\* the service answers get stream c for an identifier it holds: the batch,
\* then the end of the stream (a careless service repeats the record)
SvcServeGet_Hit(c) ==
    /\ kind[c] = "get"
    /\ sent[c] # <<>>
    /\ StreamAlive(c)
    /\ ~served[c]
    /\ Held(c) # {}
    /\ \E n \in Held(c), again \in BOOLEAN :
          resp' = [resp EXCEPT ![c] =
                      WriterPayloads(store[n].schema, store[n])
                      \o (IF again THEN <<RecordPayload(store[n])>> ELSE <<>>)
                      \o <<EofFrame>>]
    /\ served' = [served EXCEPT ![c] = TRUE]
    /\ known' = [known EXCEPT ![c] = TRUE]
    /\ UNCHANGED <<histVars, connVars, pc, kind, ctx, cancels, trace, lastErr,
                   result, putVars, getVars, sent, sendClosed, store>>

\* the service answers get stream c for an identifier it does not hold: an
\* error status, an empty stream, or a schema and no batch
SvcServeGet_Miss(c) ==
    /\ kind[c] = "get"
    /\ sent[c] # <<>>
    /\ StreamAlive(c)
    /\ ~served[c]
    /\ Held(c) = {}
    /\ \E r \in {<<ErrFrame>>, <<EofFrame>>,
                 <<SchemaPayload(<<"int">>), EofFrame>>} :
          resp' = [resp EXCEPT ![c] = r]
    /\ served' = [served EXCEPT ![c] = TRUE]
    /\ UNCHANGED <<histVars, connVars, pc, kind, ctx, cancels, trace, lastErr,
                   result, putVars, getVars, sent, sendClosed, known, store>>

\* the service answers list stream c: one record per identifier it holds
SvcServeList(c) ==
    /\ kind[c] = "list"
    /\ sent[c] # <<>>
    /\ StreamAlive(c)
    /\ ~served[c]
    /\ resp' = [resp EXCEPT ![c] =
                   [n \in 1..Len(store) |-> InfoFrame(IdOf(n))]
                   \o <<EofFrame>>]
    /\ served' = [served EXCEPT ![c] = TRUE]
    /\ UNCHANGED <<histVars, connVars, pc, kind, ctx, cancels, trace, lastErr,
                   result, putVars, getVars, sent, sendClosed, known, store>>

\* a service that answers list stream c with records that carry no
\* descriptor
SvcServeList_Bare(c) ==
    /\ kind[c] = "list"
    /\ sent[c] # <<>>
    /\ StreamAlive(c)
    /\ ~served[c]
    /\ store # <<>>
    /\ resp' = [resp EXCEPT ![c] =
                   [n \in 1..Len(store) |-> BareInfoFrame] \o <<EofFrame>>]
    /\ served' = [served EXCEPT ![c] = TRUE]
    /\ UNCHANGED <<histVars, connVars, pc, kind, ctx, cancels, trace, lastErr,
                   result, putVars, getVars, sent, sendClosed, known, store>>

(***************************************************************************)
(* The specification: the calls of a FlightClient made with the default    *)
(* config, over a transport that may fail at any operation, under          *)
(* deadlines that may pass and callers that may cancel.                    *)
(***************************************************************************)
Next ==
    \/ Dial_Ok
    \/ Dial_Err
    \/ NewClient_Ok
    \/ NewClient_Err
    \/ Close
    \/ \E c \in MixedCalls, b \in BatchValues : StartPut(c, b)
    \/ \E c \in MixedCalls, t \in Tickets : StartGet(c, t)
    \/ \E c \in MixedCalls : StartList(c)
    \/ \E c \in Calls : DeadlineExpire(c)
    \/ \E c \in Calls : CallerCancel(c)
    \/ \E c \in Calls : DeferCancel(c)
    \/ \E c \in Calls : PutOpen_Ok(c)
    \/ \E c \in Calls : PutOpen_Err(c)
    \/ \E c \in Calls : PutDesc_Ok(c)
    \/ \E c \in Calls : PutDesc_Err(c)
    \/ \E c \in Calls : PutWrite_Ok(c)
    \/ \E c \in Calls : PutWrite_Err(c)
    \/ \E c \in Calls : PutAbort(c)
    \/ \E c \in Calls : PutCloseWriter_Ok(c)
    \/ \E c \in Calls : PutCloseWriter_Err(c)
    \/ \E c \in Calls : PutRecv_Ok(c)
    \/ \E c \in Calls : PutRecv_Err(c)
    \/ \E c \in Calls : GetOpen_Ok(c)
    \/ \E c \in Calls : GetOpen_Err(c)
    \/ \E c \in Calls : GetReader_Ok(c)
    \/ \E c \in Calls : GetReader_Err(c)
    \/ \E c \in Calls : GetNext_Ok(c)
    \/ \E c \in Calls : GetNext_Eof(c)
    \/ \E c \in Calls : GetNext_Err(c)
    \/ \E c \in Calls : GetRetain(c)
    \/ \E c \in Calls : DeferRelease(c)
    \/ \E c \in Calls : CallerRelease(c)
    \/ \E c \in Calls : ListOpen_Ok(c)
    \/ \E c \in Calls : ListOpen_Err(c)
    \/ \E c \in Calls : ListRecv_Ok(c)
    \/ \E c \in Calls : ListRecv_End(c)
    \/ \E c \in Calls : SvcAck(c)
    \/ \E c \in Calls : SvcServeGet_Hit(c)
    \/ \E c \in Calls : SvcServeGet_Miss(c)
    \/ \E c \in Calls : SvcServeList(c)

Spec == Init /\ [][Next]_vars

(***************************************************************************)
(* The calm specification: any config, a FlightClient that may be closed   *)
(* twice and a service that may leave descriptors out, over a transport    *)
(* that fails no operation while the channel is open, with no deadline     *)
(* passing and no caller cancelling.                                       *)
(***************************************************************************)
\* the operation of call c that fails in this step fails for another reason
\* than a fault of the transport
NoFault(c) == lastErr'[c] # "transport"

NextCalm ==
    \/ Dial_Ok
    \/ Dial_Err
    \/ NewClient_Ok
    \/ NewClient_Err
    \/ Close
    \/ Close_Again
    \/ \E c \in MixedCalls, b \in BatchValues : StartPut(c, b)
    \/ \E c \in MixedCalls, t \in Tickets : StartGet(c, t)
    \/ \E c \in MixedCalls : StartList(c)
    \/ \E c \in Calls : DeferCancel(c)
    \/ \E c \in Calls : PutOpen_Ok(c)
    \/ \E c \in Calls : PutOpen_Err(c) /\ NoFault(c)
    \/ \E c \in Calls : PutDesc_Ok(c)
    \/ \E c \in Calls : PutDesc_Err(c) /\ NoFault(c)
    \/ \E c \in Calls : PutWrite_Ok(c)
    \/ \E c \in Calls : PutWrite_Err(c) /\ NoFault(c)
    \/ \E c \in Calls : PutAbort(c)
    \/ \E c \in Calls : PutCloseWriter_Ok(c)
    \/ \E c \in Calls : PutCloseWriter_Err(c) /\ NoFault(c)
    \/ \E c \in Calls : PutRecv_Ok(c)
    \/ \E c \in Calls : PutRecv_Err(c) /\ NoFault(c)
    \/ \E c \in Calls : GetOpen_Ok(c)
    \/ \E c \in Calls : GetOpen_Err(c) /\ NoFault(c)
    \/ \E c \in Calls : GetReader_Ok(c)
    \/ \E c \in Calls : GetReader_Err(c) /\ NoFault(c)
    \/ \E c \in Calls : GetNext_Ok(c)
    \/ \E c \in Calls : GetNext_Eof(c)
    \/ \E c \in Calls : GetNext_Err(c) /\ NoFault(c)
    \/ \E c \in Calls : GetRetain(c)
    \/ \E c \in Calls : DeferRelease(c)
    \/ \E c \in Calls : CallerRelease(c)
    \/ \E c \in Calls : ListOpen_Ok(c)
    \/ \E c \in Calls : ListOpen_Err(c) /\ NoFault(c)
    \/ \E c \in Calls : ListRecv_Ok(c)
    \/ \E c \in Calls : ListRecv_Panic(c)
    \/ \E c \in Calls : ListRecv_End(c) /\ NoFault(c)
    \/ \E c \in Calls : SvcAck(c)
    \/ \E c \in Calls : SvcServeGet_Hit(c)
    \/ \E c \in Calls : SvcServeGet_Miss(c)
    \/ \E c \in Calls : SvcServeList(c)
    \/ \E c \in Calls : SvcServeList_Bare(c)

SpecCalm == InitCalm /\ [][NextCalm]_vars

(***************************************************************************)
(* The uploads specification: PutBatch and ListBatches calls, more of      *)
(* them, on a FlightClient that stays open, over a transport that fails no *)
(* operation, with no deadline passing and no caller cancelling.           *)
(***************************************************************************)
NextUploads ==
    \/ Dial_Ok
    \/ NewClient_Ok
    \/ \E c \in Calls, b \in BatchValues : StartPut(c, b)
    \/ \E c \in Calls : StartList(c)
    \/ \E c \in Calls : DeferCancel(c)
    \/ \E c \in Calls : PutOpen_Ok(c)
    \/ \E c \in Calls : PutDesc_Ok(c)
    \/ \E c \in Calls : PutWrite_Ok(c)
    \/ \E c \in Calls : PutCloseWriter_Ok(c)
    \/ \E c \in Calls : PutRecv_Ok(c)
    \/ \E c \in Calls : ListOpen_Ok(c)
    \/ \E c \in Calls : ListRecv_Ok(c)
    \/ \E c \in Calls : ListRecv_End(c) /\ NoFault(c)
    \/ \E c \in Calls : SvcAck(c)
    \/ \E c \in Calls : SvcServeList(c)

SpecUploads == Init /\ [][NextUploads]_vars

(***************************************************************************)
(* Properties.                                                             *)
(***************************************************************************)
\* operation ev occurs in trace t
Has(t, ev) == \E i \in 1..Len(t) : t[i] = ev

\* the position of the first ev in trace t
First(t, ev) ==
    CHOOSE i \in 1..Len(t) : t[i] = ev /\ \A j \in 1..(i - 1) : t[j] # ev

\* how many operations of trace t are among evs
Count(t, evs) == Cardinality({i \in 1..Len(t) : t[i] \in evs})

Returned(c) == pc[c] = "done"

\* two batches with the same schema, column count, row count and buffers
SameBatch(a, b) ==
    /\ a.schema = b.schema
    /\ Len(a.cols) = Len(b.cols)
    /\ a.rows = b.rows
    /\ a.cols = b.cols

\* C1: a GetBatch call that returns a batch has retained it before the
\* reader's Release ran; from then on, and in particular once the reader is
\* torn down and the call has returned, the batch has a reference count of
\* at least 1 and is not freed, until the caller releases it.
C1_RetainedBatchSurvivesReader ==
    \A c \in Calls :
        (kind[c] = "get" /\ result[c].hasBatch) =>
            /\ rec[c].exists
            /\ Has(trace[c], "retain")
            /\ Has(trace[c], "release") =>
                  First(trace[c], "retain") < First(trace[c], "release")
            /\ ~released[c] => (rec[c].refs >= 1 /\ ~rec[c].freed)
            /\ (~released[c] /\ rdr[c].refs = 0) => rec[c].refs = 1

\* a GetBatch call has returned a batch, its reader is released, its
\* context cancelled, and the caller still holds the batch
C1_Witness ==
    \E c \in Calls :
        /\ kind[c] = "get" /\ Returned(c) /\ result[c].hasBatch
        /\ rdr[c].made /\ rdr[c].refs = 0 /\ Has(trace[c], "release")
        /\ ~released[c] /\ rec[c].refs = 1 /\ ~rec[c].freed

C3_PutFraming ==
    \A c \in Calls :
        kind[c] = "put" =>
            /\ Len(sent[c]) >= 1 =>
                  /\ sent[c][1].kind = "descriptor"
                  /\ sent[c][1].dtype = "CMD"
                  /\ sent[c][1].cmd = <<112, 117, 116>>
                  /\ sent[c][1].fields = <<>>
                  /\ sent[c][1].body = <<>>
                  /\ sent[c][1].appMeta = <<>>
            /\ Len(sent[c]) >= 2 =>
                  /\ sent[c][2].kind = "schema"
                  /\ sent[c][2].fields = entry[c].val.schema
            /\ \A i \in 3..Len(sent[c]) : sent[c][i].kind \in {"dict", "record"}
            /\ \A i \in 1..Len(trace[c]), j \in 1..Len(trace[c]) :
                  (i < j /\ trace[c][i] \in {"wclose_ok", "wclose_err",
                                             "wclose_dropped"})
                      => trace[c][j] \notin {"desc_ok", "desc_err",
                                             "send_ok", "send_err"}

\* a PutBatch call has sent descriptor, schema, dictionary and record, and
\* closed its writer
C3_Witness ==
    \E c \in Calls :
        /\ kind[c] = "put" /\ Len(sent[c]) = 4
        /\ sent[c][3].kind = "dict" /\ sent[c][4].kind = "record"
        /\ Has(trace[c], "wclose_ok")

\* C4: when PutBatch waits for the acknowledgement, having written its
\* batch, it has closed the send side of its stream.
C4_SendSideClosedBeforeRecv ==
    \A c \in Calls :
        (kind[c] = "put" /\ Has(trace[c], "wclose_ok")) => sendClosed[c]

\* C5: a successful PutBatch call received exactly one frame from its
\* stream, in one Recv that came after all its sends, and the identifier it
\* returns is the metadata bytes of that frame.
C5_OneAckIsTheId ==
    \A c \in Calls :
        (kind[c] = "put" /\ result[c].ok) =>
            /\ Len(rcvd[c]) = 1
            /\ rcvd[c][1].kind = "ack"
            /\ result[c].id = rcvd[c][1].appMeta
            /\ Count(trace[c], {"recv_ok", "recv_err"}) = 1
            /\ \A i \in 1..Len(trace[c]) :
                  trace[c][i] \in {"desc_ok", "send_ok", "wclose_ok"}
                      => i < First(trace[c], "recv_ok")

\* a PutBatch call has returned the identifier the service assigned
C5_Witness ==
    \E c \in Calls :
        /\ kind[c] = "put" /\ Returned(c) /\ result[c].ok
        /\ result[c].id = IdOf(1)
        /\ Len(rcvd[c]) = 1

\* the failure outcomes of the operations of PutBatch, one per phase
PutFailures == {"open_err", "desc_err", "send_err", "wclose_err", "recv_err"}

\* the phase an operation of PutBatch belongs to: 1 stream open, 2 descriptor
\* send, 3 batch write, 4 writer close, 5 acknowledgement receive; 0 for the
\* deferred cancel
PhaseNo(ev) ==
    CASE ev \in {"open_ok", "open_err"} -> 1
      [] ev \in {"desc_ok", "desc_err"} -> 2
      [] ev \in {"send_ok", "send_err"} -> 3
      [] ev \in {"wclose_ok", "wclose_err", "wclose_dropped"} -> 4
      [] ev \in {"recv_ok", "recv_err"} -> 5
      [] OTHER -> 0

\* the tag PutBatch puts on the error of each phase
PhaseTag(ev) ==
    CASE ev = "open_err" -> "failed to start DoPut stream"
      [] ev = "desc_err" -> "failed to send descriptor"
      [] ev = "send_err" -> "failed to write batch to stream"
      [] ev = "wclose_err" -> "failed to close writer"
      [] ev = "recv_err" -> "failed to receive result"
      [] OTHER -> ""

\* no phase of PutBatch call c was attempted twice
PutPhasesOnce(c) ==
    /\ Count(trace[c], {"open_ok", "open_err"}) <= 1
    /\ Count(trace[c], {"desc_ok", "desc_err"}) <= 1
    /\ Count(trace[c], {"send_err"}) <= 1
    /\ Count(trace[c], {"wclose_ok", "wclose_err", "wclose_dropped"}) <= 1
    /\ Count(trace[c], {"recv_ok", "recv_err"}) <= 1

\* PutBatch call c failed in exactly one phase and returned "" and the
\* error of that phase, wrapping the cause
PutFailureTagged(c) ==
    LET fails == {i \in 1..Len(trace[c]) : trace[c][i] \in PutFailures} IN
    /\ Cardinality(fails) = 1
    /\ \A i \in fails :
          /\ result[c].id = <<>>
          /\ result[c].err.tag = PhaseTag(trace[c][i])
          /\ result[c].err.cause = lastErr[c]
          /\ result[c].err.cause # ""
          /\ \A j \in 1..(i - 1) : PhaseNo(trace[c][j]) <= PhaseNo(trace[c][i])

\* C6, as claimed: a failed PutBatch call failed in one phase, returned ""
\* and the error of that phase; no later phase was attempted after the
\* failure and no phase was attempted twice.
C6_NoLaterPhaseAttempted ==
    \A c \in Calls :
        kind[c] = "put" =>
            /\ PutPhasesOnce(c)
            /\ (Returned(c) /\ ~result[c].ok) =>
                  /\ PutFailureTagged(c)
                  /\ \A i \in 1..Len(trace[c]), j \in 1..Len(trace[c]) :
                        (trace[c][i] \in PutFailures /\ i < j)
                            => PhaseNo(trace[c][j]) = 0

\* C6, amended: as claimed, except that a failed batch write is followed by
\* one close of the writer, whose result is dropped.
C6_FailurePhases ==
    \A c \in Calls :
        kind[c] = "put" =>
            /\ PutPhasesOnce(c)
            /\ (Returned(c) /\ ~result[c].ok) =>
                  /\ PutFailureTagged(c)
                  /\ \A i \in 1..Len(trace[c]), j \in 1..Len(trace[c]) :
                        (trace[c][i] \in PutFailures /\ i < j)
                            => \/ PhaseNo(trace[c][j]) = 0
                               \/ /\ trace[c][i] = "send_err"
                                  /\ j = i + 1
                                  /\ trace[c][j] = "wclose_dropped"

\* one PutBatch call failed writing its batch, another waiting for the
\* acknowledgement after its deadline
C6_Witness ==
    \E c \in Calls, d \in Calls :
        /\ kind[c] = "put" /\ Returned(c)
        /\ result[c].err.tag = "failed to write batch to stream"
        /\ Has(trace[c], "wclose_dropped")
        /\ kind[d] = "put" /\ Returned(d)
        /\ result[d].err = Wrap("failed to receive result", "deadline")

\* C7: from the call of PutBatch on, on every path, the caller's batch has
\* the reference count and the contents it had at the call, and is alive.
C7_PutLeavesBatchAlone ==
    \A c \in Calls :
        kind[c] = "put" =>
            /\ batch[c] = entry[c]
            /\ batch[c].refs >= 1
            /\ ~batch[c].freed

\* one PutBatch call has returned an identifier, another has failed writing
C7_Witness ==
    \E c \in Calls, d \in Calls :
        /\ kind[c] = "put" /\ Returned(c) /\ result[c].ok
        /\ kind[d] = "put" /\ Returned(d) /\ Has(trace[d], "wclose_dropped")
        /\ batch[c].refs = 1 /\ batch[d].refs = 1

\* C8: GetBatch returns a batch exactly when the reader yielded one.  When
\* the stream ends with no batch and no error it returns the error "no
\* batch received", with no cause; when the stream open, the reader
\* creation or the decoding fails it returns an error of that phase, which
\* wraps the cause and is not "no batch received".  It never returns a batch
\* for an identifier the service does not hold.
C8_GetOutcomes ==
    \A c \in Calls :
        (kind[c] = "get" /\ Returned(c)) =>
            /\ result[c].hasBatch <=> Has(trace[c], "next_ok")
            /\ result[c].ok <=> result[c].hasBatch
            /\ result[c].ok => result[c].err = NoErr
            /\ Has(trace[c], "next_eof") =>
                  /\ ~result[c].hasBatch
                  /\ result[c].err = Wrap("no batch received", "")
            /\ \A ev \in {"open_err", "reader_err", "next_err"} :
                  Has(trace[c], ev) =>
                      /\ ~result[c].hasBatch
                      /\ result[c].err.tag =
                            (CASE ev = "open_err" ->
                                    "failed to start DoGet stream"
                               [] ev = "reader_err" ->
                                    "failed to create record reader"
                               [] OTHER -> "error reading batch")
                      /\ result[c].err.tag # "no batch received"
                      /\ result[c].err.cause = lastErr[c]
                      /\ result[c].err.cause # ""
            /\ result[c].hasBatch => known[c]

\* one GetBatch for an identifier the service does not hold found an empty
\* stream, another was refused by the service
C8_Witness ==
    \E c \in Calls, d \in Calls :
        /\ kind[c] = "get" /\ Returned(c) /\ served[c] /\ ~known[c]
        /\ result[c].err = Wrap("no batch received", "")
        /\ kind[d] = "get" /\ Returned(d) /\ served[d] /\ ~known[d]
        /\ result[d].err = Wrap("failed to create record reader", "status")

\* C9: a call that ran into its deadline returns a timeout error, never a
\* success value.
C9_TimeoutReturnsError ==
    \A c \in Calls :
        (Returned(c) /\ lastErr[c] = "deadline") =>
            /\ ~result[c].ok
            /\ result[c].err.cause = "deadline"

\* C10: a call sees a deadline or a cancellation only when its own context
\* expired or was cancelled, whatever happened to the contexts of the
\* other calls; and the channel is closed by Close alone.
C10_DeadlineIsolation ==
    /\ \A c \in Calls :
          /\ lastErr[c] = "deadline" => ctx[c] = "deadline"
          /\ lastErr[c] = "canceled" => ctx[c] = "canceled"
    /\ clientCh = "closed" => fc = "closed"
    /\ connCh = "closed" => fc \in {"closed", "failed"}

\* two calls ran concurrently on the open channel: one ran into its
\* deadline, the other completed successfully
C10_Witness ==
    \E c \in Calls, d \in Calls :
        /\ c # d /\ Returned(c) /\ Returned(d)
        /\ c \notin prior[d] /\ d \notin prior[c]
        /\ lastErr[c] = "deadline" /\ ctx[c] = "deadline"
        /\ kind[d] = "put" /\ result[d].ok /\ lastErr[d] = ""
        /\ clientCh = "open"

(***************************************************************************)
(* Concurrent PutBatch calls on one FlightClient.                          *)
(***************************************************************************)
\* s is a prefix of t
IsPrefix(s, t) == Len(s) <= Len(t) /\ s = SubSeq(t, 1, Len(s))

\* the frames a PutBatch call sends for the batch b
PutFrames(b) == <<DescriptorFrame>> \o WriterPayloads(b.schema, b)

OpenTag(k) ==
    IF k = "put" THEN "failed to start DoPut stream"
    ELSE IF k = "get" THEN "failed to start DoGet stream"
    ELSE "failed to start ListFlights stream"

PutsBefore(l) == {p \in prior[l] : kind[p] = "put"}

\* every PutBatch call made so far either had returned its identifier when
\* call l started, or started after l had returned
AfterSuccessfulPuts(l) ==
    \A p \in Calls :
       kind[p] = "put" =>
          \/ p \in prior[l] /\ result[p].ok
          \/ l \in prior[p]

\* C13: a ListBatches call made after N PutBatch calls have succeeded, and
\* no other has been made, against a service that lists every batch it
\* holds, and that receives the listing to its end, returns exactly N
\* identifiers: as a set, the identifiers the N PutBatch calls returned.
C13_ListCompleteness ==
    \A l \in Calls :
       (/\ kind[l] = "list"
        /\ Returned(l)
        /\ lastErr[l] = "eof"
        /\ AfterSuccessfulPuts(l))
       => /\ result[l].ok
          /\ Len(result[l].ids) = Cardinality(PutsBefore(l))
          /\ {result[l].ids[i] : i \in 1..Len(result[l].ids)}
                = {result[p].id : p \in PutsBefore(l)}

\* a ListBatches call made after two PutBatch calls had succeeded has
\* returned the whole listing
C13_Witness ==
    \E l \in Calls :
       /\ kind[l] = "list"
       /\ Returned(l)
       /\ lastErr[l] = "eof"
       /\ AfterSuccessfulPuts(l)
       /\ Cardinality(PutsBefore(l)) = NUploads - 1
       /\ Len(result[l].ids) = NUploads - 1

(***************************************************************************)
(* The channels of a FlightClient.                                         *)
(***************************************************************************)
\* the channels the constructor has opened and nobody has closed
OpenChannels ==
    (IF connCh = "open" THEN {"conn"} ELSE {})
    \cup (IF clientCh = "open" THEN {"client"} ELSE {})

\* C14: a constructed FlightClient that has not been closed holds exactly
\* one open channel, the one its streams are opened on.
C14_OneChannelOwned ==
    fc = "built" => OpenChannels = {"client"}

(***************************************************************************)
(* The receive loop of ListBatches.                                        *)
(***************************************************************************)
\* the identifiers of the records the stream of call c has delivered, in
\* the order of their delivery
IdsReceived(c) ==
    [i \in 1..Len(rcvd[c]) |-> BytesToString(rcvd[c][i].cmd)]

\* C15: a ListBatches call that has opened its stream and returns, returns
\* a nil error, whatever made its receive fail: it receives until the
\* first receive that fails, receives nothing after it, and returns
\* exactly the identifiers of the records received before it, in order.
C15_ListSwallowsRecvError ==
    \A c \in Calls :
       (kind[c] = "list" /\ Has(trace[c], "open_ok")) =>
          /\ Count(trace[c], {"recv_err"}) <= 1
          /\ \A i, j \in 1..Len(trace[c]) :
                (i < j /\ trace[c][i] = "recv_err")
                => trace[c][j] \notin {"recv_ok", "recv_err"}
          /\ pc[c] = "list_recv" => ~Has(trace[c], "recv_err")
          /\ pc[c] \in {"defer_cancel", "done"} =>
                /\ Has(trace[c], "recv_err")
                /\ result[c].ok
                /\ result[c].err = NoErr
                /\ result[c].ids = IdsReceived(c)
                /\ Len(result[c].ids) = Count(trace[c], {"recv_ok"})

\* a ListBatches call has returned one identifier and a nil error after a
\* receive that failed for another reason than the end of the stream
C15_Witness ==
    \E c \in Calls :
       /\ kind[c] = "list"
       /\ Returned(c)
       /\ lastErr[c] \in {"transport", "deadline", "canceled", "closing"}
       /\ result[c].ok
       /\ Len(result[c].ids) = Len(store)
       /\ Len(store) > 0

\* C16: a ListBatches call completes normally on every sequence of records
\* its stream delivers: it never panics, and every record delivered has
\* added exactly one identifier, the command of its descriptor, in the
\* order of delivery.
C16_ListCompletesOnEveryRecord ==
    \A c \in Calls :
       kind[c] = "list" =>
          /\ pc[c] # "panicked"
          /\ batchIDs[c] = IdsReceived(c)
          /\ Returned(c) => result[c].ids = IdsReceived(c)

(***************************************************************************)
(* The allocator of GetBatch.                                              *)
(***************************************************************************)
\* C17: the reader of every GetBatch call decodes with the allocator the
\* FlightClient got at its construction: the configured one, or the Go
\* allocator when the config names none.
C17_DecodeUsesClientAllocator ==
    \A c \in Calls :
       rdr[c].made =>
          /\ allocator = (IF config = "nil" THEN GoAllocator ELSE config)
          /\ rdr[c].mem = allocator

(***************************************************************************)
(* The reference counts of GetBatch.                                       *)
(***************************************************************************)
\* C18: in a GetBatch call, a reader that was created is released exactly
\* once on every path out of the function, and a reader that was not
\* created is never released; a failing call retains nothing and leaves
\* no record with a reference; a succeeding call retains one record, once,
\* and that one reference is the caller's.
C18_GetRefcountsBalanced ==
    \A c \in Calls :
       kind[c] = "get" =>
          /\ rdr[c].refs \in {0, 1}
          /\ rec[c].refs \in {0, 1, 2}
          /\ rdr[c].made = Has(trace[c], "reader_ok")
          /\ Count(trace[c], {"retain"}) <= 1
          /\ pc[c] \in {"get_next", "get_retain", "defer_release"} =>
                /\ rdr[c].made
                /\ rdr[c].refs = 1
                /\ Count(trace[c], {"release"}) = 0
          /\ pc[c] \in {"defer_cancel", "done"} =>
                /\ Count(trace[c], {"release"}) = (IF rdr[c].made THEN 1 ELSE 0)
                /\ rdr[c].refs = 0
                /\ result[c].ok =>
                      /\ Count(trace[c], {"retain"}) = 1
                      /\ rec[c].exists
                      /\ rec[c].refs = (IF released[c] THEN 0 ELSE 1)
                /\ ~result[c].ok =>
                      /\ Count(trace[c], {"retain"}) = 0
                      /\ rec[c].refs = 0
                      /\ ~(rec[c].exists /\ ~rec[c].freed)

\* two GetBatch calls have failed and returned: one before its reader was
\* created, one after
C18_Witness ==
    \E c, d \in Calls :
       /\ kind[c] = "get" /\ Returned(c) /\ ~result[c].ok
       /\ ~rdr[c].made
       /\ Count(trace[c], {"release"}) = 0
       /\ kind[d] = "get" /\ Returned(d) /\ ~result[d].ok
       /\ rdr[d].made
       /\ Count(trace[d], {"release"}) = 1

(***************************************************************************)
(* The context of a call.                                                  *)
(***************************************************************************)
\* C19: on every path out of PutBatch, GetBatch and ListBatches the context
\* derived for the call is cancelled exactly once, as the last thing the
\* call does and not before: a call that has returned has a context that
\* is done, so no stream it opened is alive.
C19_ContextCancelledAtReturn ==
    \A c \in Calls :
       /\ pc[c] \notin {"idle", "done", "panicked"} =>
             /\ cancels[c] = 0
             /\ ~Has(trace[c], "cancel")
       /\ pc[c] \in {"done", "panicked"} =>
             /\ cancels[c] = 1
             /\ Count(trace[c], {"cancel"}) = 1
             /\ trace[c][Len(trace[c])] = "cancel"
             /\ ctx[c] \in {"canceled", "deadline"}
             /\ ~Healthy(c)
             /\ ~StreamAlive(c)

\* a PutBatch call has returned an error and a GetBatch call a batch, each
\* after opening its stream
C19_Witness ==
    \E c, d \in Calls :
       /\ kind[c] = "put" /\ Returned(c) /\ ~result[c].ok
       /\ Has(trace[c], "open_ok")
       /\ kind[d] = "get" /\ Returned(d) /\ result[d].ok
       /\ cancels[c] = 1 /\ cancels[d] = 1

(***************************************************************************)
(* The channels NewFlightClient opens and Close closes.                    *)
(***************************************************************************)
\* C20: NewFlightClient returns a FlightClient or an error, never both;
\* when it returns an error, after a failed dial or after a failed
\* creation of the Flight client, no channel it opened is open; when it
\* returns a FlightClient nothing was closed; once Close has returned,
\* every channel the constructor opened is closed, also when the close of
\* the Flight client failed and its error was dropped.
C20_NoChannelLeak ==
    /\ fc = "failed" =>
          /\ OpenChannels = {}
          /\ clientCh = "unopened"
          /\ allocator = ""
          /\ closeRet = ""
    /\ fc = "built" =>
          /\ allocator # ""
          /\ connCh = "open"
          /\ clientCh = "open"
          /\ closeRet = ""
    /\ fc = "closed" =>
          /\ OpenChannels = {}
          /\ connCh = "closed"
          /\ clientCh = "closed"
          /\ closeRet \in {"nil", "err"}
    /\ fc \in {"none", "dialed"} => allocator = "" /\ closeRet = ""

\* Close was called on a closed FlightClient: the close of the Flight
\* client failed, the close of the dialed channel was still made, and no
\* channel is open
C20_Witness ==
    /\ fc = "closed"
    /\ closeRet = "err"
    /\ OpenChannels = {}

====
